---- MODULE Spec2Model ----
(***************************************************************************)
(* Model of the CHIP-8 CPU core of src/src/cpu.rs: the machine state of    *)
(* struct CPU, the fetch-decode-dispatch loop of CPU::run and the opcode   *)
(* handlers CPU::ret, CPU::call and CPU::add_xy.                           *)
(*                                                                         *)
(* One iteration of the loop is two steps: ReadOpcode (line 24) and then   *)
(* one of Halt / Ret / Call / AddXY / Todo (lines 25-40), selected by the  *)
(* match of line 34.  A Rust panic (panic!, todo!, a failed bounds check)  *)
(* unwinds out of run; the model records it as status = "Panicked" with    *)
(* the panic's message.                                                    *)
(***************************************************************************)
EXTENDS Integers, Naturals, Sequences, FiniteSets, TLC

VARIABLES
    registers,            \* CPU.registers: [u8; 16]
    memory,               \* CPU.memory: [u8; 0x1000]
    position_in_memory,   \* CPU.position_in_memory: usize
    stack,                \* CPU.stack: [u16; 16]
    stack_pointer,        \* CPU.stack_pointer: usize
    opcode,               \* local `opcode` of run (u16)
    phase,                \* position inside one loop iteration
    status,               \* control state of run: in the loop, returned, unwound
    panic,                \* message of the panic that ended run ("" if none)
    runs,                 \* number of times run has been entered
    cycles,               \* history: the last two dispatched instructions
    pending               \* history: addresses of the CALLs not yet returned from

vars == <<registers, memory, position_in_memory, stack, stack_pointer,
          opcode, phase, status, panic, runs, cycles, pending>>

machine == <<registers, memory, position_in_memory, stack, stack_pointer>>

(***************************************************************************)
(* Sizes fixed by the struct.                                              *)
(***************************************************************************)
NumRegisters == 16
MemoryLen == 4096
StackLen == 16

\* Bound of the model: how many times the caller may enter run.
MaxRuns == 2

U8 == 256
U16 == 65536

(***************************************************************************)
(* Bit operations on naturals, computed bit by bit.                        *)
(***************************************************************************)
RECURSIVE BitAnd(_, _)
BitAnd(a, b) ==
    IF a = 0 \/ b = 0 THEN 0
    ELSE (IF a % 2 = 1 /\ b % 2 = 1 THEN 1 ELSE 0) + 2 * BitAnd(a \div 2, b \div 2)

RECURSIVE BitOr(_, _)
BitOr(a, b) ==
    IF a = 0 THEN b
    ELSE IF b = 0 THEN a
    ELSE (IF a % 2 = 1 \/ b % 2 = 1 THEN 1 ELSE 0) + 2 * BitOr(a \div 2, b \div 2)

RECURSIVE Pow2(_)
Pow2(k) == IF k = 0 THEN 1 ELSE 2 * Pow2(k - 1)

Shr(a, k) == a \div Pow2(k)
Shl16(a, k) == (a * Pow2(k)) % U16
AsU8(a) == a % U8
AsU16(a) == a % U16

(***************************************************************************)
(* Decode, lines 27-32.                                                    *)
(***************************************************************************)
DecodeC(op) == AsU8(Shr(BitAnd(op, 61440), 12))
\* variant: x shifted by 4 instead of 8
DecodeX_Shift4(op) == AsU8(Shr(BitAnd(op, 3840), 4))
DecodeX(op) == AsU8(Shr(BitAnd(op, 3840), 8))
DecodeY(op) == AsU8(Shr(BitAnd(op, 240), 4))
DecodeD(op) == AsU8(Shr(BitAnd(op, 15), 0))
\* variant: the immediate masked with 0x00FF
DecodeNNN_LowByte(op) == BitAnd(op, 255)
DecodeNNN(op) == BitAnd(op, 4095)

(***************************************************************************)
(* The match of lines 34-40: arms are tried in order, the first that       *)
(* matches is taken.                                                       *)
(***************************************************************************)
\* variant: the ADD arm written (0x8, _, _, _)
MatchArm_AnyEight(c, x, y, d) ==
    IF c = 0 /\ x = 0 /\ y = 0 /\ d = 0 THEN "break"
    ELSE IF c = 0 /\ x = 0 /\ y = 14 /\ d = 14 THEN "ret"
    ELSE IF c = 2 THEN "call"
    ELSE IF c = 8 THEN "add_xy"
    ELSE "todo"

\* variant: the halt arm written (0, 0, _, _) ahead of the return arm
MatchArm_ZeroFamilyHalts(c, x, y, d) ==
    IF c = 0 /\ x = 0 THEN "break"
    ELSE IF c = 0 /\ x = 0 /\ y = 14 /\ d = 14 THEN "ret"
    ELSE IF c = 2 THEN "call"
    ELSE IF c = 8 /\ d = 4 THEN "add_xy"
    ELSE "todo"

MatchArm(c, x, y, d) ==
    IF c = 0 /\ x = 0 /\ y = 0 /\ d = 0 THEN "break"
    ELSE IF c = 0 /\ x = 0 /\ y = 14 /\ d = 14 THEN "ret"
    ELSE IF c = 2 THEN "call"
    ELSE IF c = 8 /\ d = 4 THEN "add_xy"
    ELSE "todo"

Arm(op) == MatchArm(DecodeC(op), DecodeX(op), DecodeY(op), DecodeD(op))

(***************************************************************************)
(* Rust's checked indexing: a[i] panics unless i < a.len().                *)
(***************************************************************************)
IndexOK(i, len) == i < len

\* variant: the bytes combined low byte first
CombineBytes_Swapped(b1, b2) == BitOr(Shl16(b2, 8), b1)

\* read_opcode, line 49: op_byte1 << 8 | op_byte2
CombineBytes(b1, b2) == BitOr(Shl16(b1, 8), b2)

\* variant: overflowing_sub in place of overflowing_add
OverflowingAdd_Sub(a, b) == <<(a - b) % U8, a < b>>

\* variant: the carry taken only when the sum exceeds 256
OverflowingAdd_Above256(a, b) == <<(a + b) % U8, a + b > U8>>

\* u8::overflowing_add, line 79
OverflowingAdd(a, b) == <<(a + b) % U8, a + b >= U8>>

\* call, line 56: the capacity check guarding the push
CallOverflows(sp, len) == sp > len

\* variant: the position pushed through `as u8`
SavedPosition_Truncated(p) == AsU8(p)

\* variant: the position pushed before it was advanced
SavedPosition_NotAdvanced(p) == AsU16(p - 2)

\* call, line 60: the value pushed for the (already advanced) position
SavedPosition(p) == AsU16(p)

\* variant: the push that forgets to move stack_pointer
AfterPush_Forgotten(sp) == sp

\* call, line 61: self.stack_pointer += 1
AfterPush(sp) == sp + 1


(***************************************************************************)
(* Memory images.  A program is a partial map from byte addresses to       *)
(* bytes; every byte it does not name keeps the 0 that CPU::new gave it.   *)
(***************************************************************************)
WordAt(addr, w) == (addr :> (w \div 256)) @@ ((addr + 1) :> (w % 256))

ImageOf(bytes) ==
    [a \in 0..(MemoryLen - 1) |-> IF a \in DOMAIN bytes THEN bytes[a] ELSE 0]

\* variant: registers: [1; 16]
NewRegisters_Ones == [i \in 0..(NumRegisters - 1) |-> 1]

\* CPU::new, lines 12-20
NewRegisters == [i \in 0..(NumRegisters - 1) |-> 0]
NewMemory == [a \in 0..(MemoryLen - 1) |-> 0]
NewStack == [i \in 0..(StackLen - 1) |-> 0]

\* example, lines 95-96
ExampleRegisters == [NewRegisters EXCEPT ![0] = 5, ![1] = 10]

\* example, lines 98-105
ExampleBytes ==
    (0 :> 33) @@ (1 :> 0) @@ (2 :> 33) @@ (3 :> 0) @@ (4 :> 0) @@ (5 :> 0) @@
    (256 :> 128) @@ (257 :> 20) @@ (258 :> 128) @@ (259 :> 20) @@
    (260 :> 0) @@ (261 :> 238)

ExampleMemory == ImageOf(ExampleBytes)

(***************************************************************************)
(* The inputs of the model: the programs a loader may have written and the *)
(* register contents it may have set before run is called.                 *)
(***************************************************************************)
HALT == 0           \* 0x0000
RETURN == 238       \* 0x00EE
CALL(nnn) == 8192 + nnn         \* 0x2nnn
ADD(x, y) == 32768 + 256 * x + 16 * y + 4   \* 0x8xy4

\* register files: even registers a, odd registers b, register 0xF f
PatternRegisters(a, b, f) ==
    [i \in 0..(NumRegisters - 1) |->
        IF i = 15 THEN f ELSE IF i % 2 = 0 THEN a ELSE b]

AddRegisterFiles ==
    {PatternRegisters(a, b, f) : a \in {0, 5, 200, 255}, b \in {1, 10, 200}, f \in {0, 7}}

FewRegisterFiles == {NewRegisters, ExampleRegisters, PatternRegisters(200, 200, 7)}

\* one instruction at offset 0, for a spread of words over every family
DecodeWords ==
    {4096 * c + 256 * x + 16 * y + d :
        c \in 0..15, x \in {0, 1, 15}, y \in {0, 1, 14, 15}, d \in {0, 4, 14, 15}}

AddWords == {ADD(x, y) : x \in {0, 1, 2, 15}, y \in {0, 1, 2, 15}}

\* three instructions at offsets 0, 2, 4
SlotWords == {HALT, RETURN, CALL(0), CALL(2), CALL(4), ADD(0, 1), 4096}

SlotPrograms ==
    {WordAt(0, w0) @@ WordAt(2, w1) @@ WordAt(4, w2) :
        w0 \in SlotWords, w1 \in SlotWords, w2 \in SlotWords}

\* programs that reach the ends of memory and of the call stack
EdgePrograms ==
    { WordAt(0, CALL(4095)),
      WordAt(0, CALL(4094)),
      WordAt(0, CALL(4094)) @@ WordAt(4094, RETURN),
      WordAt(0, CALL(4094)) @@ WordAt(4094, CALL(256)) @@ WordAt(256, RETURN),
      WordAt(0, CALL(4092)) @@ WordAt(4092, ADD(0, 1)) @@ WordAt(4094, ADD(0, 1)),
      WordAt(0, CALL(257)) @@ WordAt(256, 128) @@ WordAt(258, 5120),
      WordAt(0, CALL(256)) @@ WordAt(256, RETURN) @@ WordAt(2, CALL(512)) @@
          WordAt(512, CALL(256)) @@ WordAt(514, RETURN) }

Scenarios ==
    ({ExampleBytes} \X (FewRegisterFiles \cup AddRegisterFiles))
    \cup ({WordAt(0, w) : w \in DecodeWords} \X {NewRegisters})
    \cup ({WordAt(0, w) : w \in AddWords} \X AddRegisterFiles)
    \cup (SlotPrograms \X FewRegisterFiles)
    \cup (EdgePrograms \X FewRegisterFiles)

(***************************************************************************)
(* Init: CPU::new, then the loader's writes to memory and registers, as in *)
(* example (lines 93-105); run has just been entered.                      *)
(***************************************************************************)
Init ==
    \E sc \in Scenarios :
        /\ registers = sc[2]
        /\ memory = ImageOf(sc[1])
        /\ position_in_memory = 0
        /\ stack = NewStack
        /\ stack_pointer = 0
        /\ opcode = 0
        /\ phase = "fetch"
        /\ status = "Running"
        /\ panic = ""
        /\ runs = 1
        /\ cycles = <<>>
        /\ pending = <<>>

Panics(msg) ==
    /\ status' = "Panicked"
    /\ panic' = msg

LastTwo(s) == IF Len(s) <= 2 THEN s ELSE SubSeq(s, Len(s) - 1, Len(s))

\* indexed: the indices with which the handler indexed the call stack
Record(arm, ok, indexed) ==
    cycles' = LastTwo(Append(cycles,
                 [op |-> arm, at |-> position_in_memory, sp |-> stack_pointer,
                  ok |-> ok, indexed |-> indexed]))

\* variant: the second byte read at (p + 1) wrapped to the memory length
ReadOpcode_Wrapping ==
    /\ status = "Running"
    /\ phase = "fetch"
    /\ LET p == position_in_memory IN
        IF IndexOK(p, MemoryLen)
        THEN /\ opcode' = CombineBytes(memory[p], memory[(p + 1) % MemoryLen])
             /\ phase' = "dispatch"
             /\ UNCHANGED <<status, panic>>
        ELSE /\ Panics("index out of bounds: memory")
             /\ UNCHANGED <<opcode, phase>>
    /\ UNCHANGED <<machine, runs, cycles, pending>>

(***************************************************************************)
(* read_opcode, lines 44-50, called at line 24.                            *)
(***************************************************************************)
ReadOpcode ==
    /\ status = "Running"
    /\ phase = "fetch"
    /\ LET p == position_in_memory IN
        IF IndexOK(p, MemoryLen) /\ IndexOK(p + 1, MemoryLen)
        THEN /\ opcode' = CombineBytes(memory[p], memory[p + 1])
             /\ phase' = "dispatch"
             /\ UNCHANGED <<status, panic>>
        ELSE /\ Panics("index out of bounds: memory")
             /\ UNCHANGED <<opcode, phase>>
    /\ UNCHANGED <<machine, runs, cycles, pending>>

Dispatching(arm) ==
    /\ status = "Running"
    /\ phase = "dispatch"
    /\ Arm(opcode) = arm

\* variant: the halt arm also clears the call stack pointer
Halt_ClearsStack ==
    /\ Dispatching("break")
    /\ position_in_memory' = position_in_memory + 2
    /\ stack_pointer' = 0
    /\ status' = "Halted"
    /\ phase' = "fetch"
    /\ Record("break", TRUE, {})
    /\ UNCHANGED <<registers, memory, stack, opcode, panic, runs, pending>>

\* line 25 followed by the arm of line 35
Halt ==
    /\ Dispatching("break")
    /\ position_in_memory' = position_in_memory + 2
    /\ status' = "Halted"
    /\ phase' = "fetch"
    /\ Record("break", TRUE, {})
    /\ UNCHANGED <<registers, memory, stack, stack_pointer, opcode, panic, runs, pending>>

\* variant: ret that forgets to move stack_pointer
Ret_KeepsPointer ==
    /\ Dispatching("ret")
    /\ IF stack_pointer = 0
       THEN /\ Panics("Stack underflow")
            /\ position_in_memory' = position_in_memory + 2
            /\ Record("ret", FALSE, {})
            /\ UNCHANGED <<stack_pointer, phase, pending>>
       ELSE /\ stack_pointer' = stack_pointer
            /\ position_in_memory' = stack[stack_pointer - 1]
            /\ phase' = "fetch"
            /\ Record("ret", TRUE, {stack_pointer - 1})
            /\ pending' = SubSeq(pending, 1, Len(pending) - 1)
            /\ UNCHANGED <<status, panic>>
    /\ UNCHANGED <<registers, memory, stack, opcode, runs>>

\* variant: ret reading the bottom slot of the call stack
Ret_FromBottom ==
    /\ Dispatching("ret")
    /\ IF stack_pointer = 0
       THEN /\ Panics("Stack underflow")
            /\ position_in_memory' = position_in_memory + 2
            /\ Record("ret", FALSE, {})
            /\ UNCHANGED <<stack_pointer, phase, pending>>
       ELSE /\ stack_pointer' = stack_pointer - 1
            /\ position_in_memory' = stack[0]
            /\ phase' = "fetch"
            /\ Record("ret", TRUE, {0})
            /\ pending' = SubSeq(pending, 1, Len(pending) - 1)
            /\ UNCHANGED <<status, panic>>
    /\ UNCHANGED <<registers, memory, stack, opcode, runs>>

\* line 25 followed by ret, lines 65-73
Ret ==
    /\ Dispatching("ret")
    /\ IF stack_pointer = 0
       THEN /\ Panics("Stack underflow")
            /\ position_in_memory' = position_in_memory + 2
            /\ Record("ret", FALSE, {})
            /\ UNCHANGED <<stack_pointer, phase, pending>>
       ELSE /\ stack_pointer' = stack_pointer - 1
            /\ position_in_memory' = stack[stack_pointer - 1]
            /\ phase' = "fetch"
            /\ Record("ret", TRUE, {stack_pointer - 1})
            /\ pending' = SubSeq(pending, 1, Len(pending) - 1)
            /\ UNCHANGED <<status, panic>>
    /\ UNCHANGED <<registers, memory, stack, opcode, runs>>

\* variant: call setting the position to nnn before it pushes
Call_JumpFirst ==
    /\ Dispatching("call")
    /\ LET sp == stack_pointer
           advanced == position_in_memory + 2
       IN  IF CallOverflows(sp, StackLen)
           THEN /\ Panics("Stack overflow")
                /\ position_in_memory' = DecodeNNN(opcode)
                /\ Record("call", FALSE, {})
                /\ UNCHANGED <<stack, stack_pointer, phase, pending>>
           ELSE IF ~IndexOK(sp, StackLen)
           THEN /\ Panics("index out of bounds: stack")
                /\ position_in_memory' = DecodeNNN(opcode)
                /\ Record("call", FALSE, {sp})
                /\ UNCHANGED <<stack, stack_pointer, phase, pending>>
           ELSE /\ stack' = [stack EXCEPT ![sp] = SavedPosition(advanced)]
                /\ stack_pointer' = AfterPush(stack_pointer)
                /\ position_in_memory' = DecodeNNN(opcode)
                /\ phase' = "fetch"
                /\ Record("call", TRUE, {sp})
                /\ pending' = Append(pending, position_in_memory)
                /\ UNCHANGED <<status, panic>>
    /\ UNCHANGED <<registers, memory, opcode, runs>>

\* line 25 followed by call, lines 52-63
Call ==
    /\ Dispatching("call")
    /\ LET sp == stack_pointer
           advanced == position_in_memory + 2
       IN  IF CallOverflows(sp, StackLen)
           THEN /\ Panics("Stack overflow")
                /\ position_in_memory' = advanced
                /\ Record("call", FALSE, {})
                /\ UNCHANGED <<stack, stack_pointer, phase, pending>>
           ELSE IF ~IndexOK(sp, StackLen)
           THEN /\ Panics("index out of bounds: stack")
                /\ position_in_memory' = advanced
                /\ Record("call", FALSE, {sp})
                /\ UNCHANGED <<stack, stack_pointer, phase, pending>>
           ELSE /\ stack' = [stack EXCEPT ![sp] = SavedPosition(advanced)]
                /\ stack_pointer' = AfterPush(stack_pointer)
                /\ position_in_memory' = DecodeNNN(opcode)
                /\ phase' = "fetch"
                /\ Record("call", TRUE, {sp})
                /\ pending' = Append(pending, position_in_memory)
                /\ UNCHANGED <<status, panic>>
    /\ UNCHANGED <<registers, memory, opcode, runs>>

\* variant: the sum stored in register y as well
AddXYRegisters_WritesY(regs, x, y) ==
    LET r == OverflowingAdd(regs[x], regs[y])
        written == [regs EXCEPT ![x] = r[1], ![y] = r[1]]
    IN  [written EXCEPT ![15] = IF r[2] THEN 1 ELSE 0]

\* variant: the flag stored before the sum
AddXYRegisters_FlagFirst(regs, x, y) ==
    LET r == OverflowingAdd(regs[x], regs[y])
        flagged == [regs EXCEPT ![15] = IF r[2] THEN 1 ELSE 0]
    IN  [flagged EXCEPT ![x] = r[1]]

\* add_xy, lines 76-87: the register file it leaves (x and y in range)
AddXYRegisters(regs, x, y) ==
    LET r == OverflowingAdd(regs[x], regs[y])
        written == [regs EXCEPT ![x] = r[1]]
    IN  [written EXCEPT ![15] = IF r[2] THEN 1 ELSE 0]

\* line 25 followed by add_xy, lines 75-88
AddXY ==
    /\ Dispatching("add_xy")
    /\ LET x == DecodeX(opcode)
           y == DecodeY(opcode)
       IN  IF IndexOK(x, NumRegisters) /\ IndexOK(y, NumRegisters)
           THEN /\ registers' = AddXYRegisters(registers, x, y)
                /\ phase' = "fetch"
                /\ Record("add_xy", TRUE, {})
                /\ UNCHANGED <<status, panic>>
           ELSE /\ Panics("index out of bounds: registers")
                /\ Record("add_xy", FALSE, {})
                /\ UNCHANGED <<registers, phase>>
    /\ position_in_memory' = position_in_memory + 2
    /\ UNCHANGED <<memory, stack, stack_pointer, opcode, runs, pending>>

\* line 25 followed by the arm of line 39
Todo ==
    /\ Dispatching("todo")
    /\ Panics("not yet implemented")
    /\ position_in_memory' = position_in_memory + 2
    /\ Record("todo", FALSE, {})
    /\ UNCHANGED <<registers, memory, stack, stack_pointer, opcode, phase, runs, pending>>

\* the caller enters run again on the machine a finished run left, line 22
RunAgain ==
    /\ status = "Halted"
    /\ runs < MaxRuns
    /\ status' = "Running"
    /\ runs' = runs + 1
    /\ UNCHANGED <<machine, opcode, phase, panic, cycles, pending>>

Next == ReadOpcode \/ Halt \/ Ret \/ Call \/ AddXY \/ Todo

Spec == Init /\ [][Next]_vars

\* run is a synchronous loop: an iteration that can be taken is taken
FairSpec == Spec /\ WF_vars(Next)

NextRerun == ReadOpcode \/ Halt \/ Ret \/ Call \/ AddXY \/ Todo \/ RunAgain

SpecRerun == Init /\ [][NextRerun]_vars

(***************************************************************************)
(* The same loop started from the machine CPU::new returns (lines 12-20),  *)
(* before any loader has touched it; Load is the caller's writes to the    *)
(* public fields (example, lines 95-105) followed by the call of run.      *)
(***************************************************************************)
InitNew ==
    /\ registers = NewRegisters
    /\ memory = NewMemory
    /\ position_in_memory = 0
    /\ stack = NewStack
    /\ stack_pointer = 0
    /\ opcode = 0
    /\ phase = "new"
    /\ status = "Running"
    /\ panic = ""
    /\ runs = 1
    /\ cycles = <<>>
    /\ pending = <<>>

Load ==
    /\ phase = "new"
    /\ \E sc \in Scenarios :
        /\ registers' = sc[2]
        /\ memory' = ImageOf(sc[1])
    /\ phase' = "fetch"
    /\ UNCHANGED <<position_in_memory, stack, stack_pointer, opcode, status,
                   panic, runs, cycles, pending>>

NextNew == Load \/ ReadOpcode \/ Halt \/ Ret \/ Call \/ AddXY \/ Todo

SpecNew == InitNew /\ [][NextNew]_vars

(***************************************************************************)
(* The loop started on one instruction word at offset 0 of an otherwise    *)
(* empty memory.  The words take every value of the high byte (nibbles c   *)
(* and x) with a spread of low bytes, and every value of the low byte      *)
(* (nibbles y and d) with a spread of high bytes.                          *)
(***************************************************************************)
SpreadLowBytes == {0, 4, 20, 224, 238, 255}        \* 00 04 14 E0 EE FF

SpreadHighBytes == {0, 1, 32, 47, 128, 143, 255}   \* 00 01 20 2F 80 8F FF

DecodeCases ==
    {256 * h + l : h \in 0..(U8 - 1), l \in SpreadLowBytes}
    \cup {256 * h + l : h \in SpreadHighBytes, l \in 0..(U8 - 1)}

InitDecode ==
    \E w \in DecodeCases :
        /\ registers = PatternRegisters(200, 100, 7)
        /\ memory = [NewMemory EXCEPT ![0] = w \div 256, ![1] = w % 256]
        /\ position_in_memory = 0
        /\ stack = NewStack
        /\ stack_pointer = 0
        /\ opcode = 0
        /\ phase = "fetch"
        /\ status = "Running"
        /\ panic = ""
        /\ runs = 1
        /\ cycles = <<>>
        /\ pending = <<>>

SpecDecode == InitDecode /\ [][Next]_vars

TypeOK ==
    /\ registers \in [0..(NumRegisters - 1) -> 0..(U8 - 1)]
    /\ position_in_memory \in 0..MemoryLen
    /\ stack \in [0..(StackLen - 1) -> 0..(U16 - 1)]
    /\ stack_pointer \in 0..StackLen
    /\ opcode \in 0..(U16 - 1)
    /\ phase \in {"new", "fetch", "dispatch"}
    /\ status \in {"Running", "Halted", "Panicked"}


(***************************************************************************)
(* Vocabulary of the properties.                                           *)
(***************************************************************************)
Terminal == status \in {"Halted", "Panicked"}

\* the fault outcomes of the run loop, as the panics that realise them
Faulted(reason) ==
    /\ status = "Panicked"
    /\ panic = CASE reason = "StackOverflow" -> "Stack overflow"
                 [] reason = "StackUnderflow" -> "Stack underflow"
                 [] reason = "UnimplementedOpcode" -> "not yet implemented"
                 [] reason = "OutOfBoundsFetch" -> "index out of bounds: memory"

AboutToFetch == status = "Running" /\ phase = "fetch"
AboutToDispatch == status = "Running" /\ phase = "dispatch"

LastCycle == cycles[Len(cycles)]

\* the machine as example leaves it just before cpu.run()
ExampleStart ==
    /\ memory = ExampleMemory
    /\ registers = ExampleRegisters
    /\ position_in_memory = 0
    /\ stack_pointer = 0
    /\ AboutToFetch
    /\ cycles = <<>>

(***************************************************************************)
(* C1: the example program (CALL 0x100; CALL 0x100; HALT and, at 0x100,    *)
(* ADD reg0 += reg1 twice; RETURN) started with reg0 = 5 and reg1 = 10     *)
(* reaches Halted with reg0 = 45, and the example memory never faults.     *)
(***************************************************************************)
C1_ExampleHaltsWith45 ==
    /\ ExampleStart ~> (status = "Halted" /\ registers[0] = 45)
    /\ [](memory = ExampleMemory => status # "Panicked")

C1_Witness ==
    /\ memory = ExampleMemory
    /\ status = "Halted"
    /\ registers[0] = 45
    /\ registers[1] = 10
    /\ position_in_memory = 6
    /\ stack_pointer = 0

(***************************************************************************)
(* C2: a CALL at address a that does not fault, followed at once by a      *)
(* RETURN, leaves program_counter = a + 2 and stack_pointer as it was      *)
(* before the CALL.                                                        *)
(***************************************************************************)
CallThenReturn ==
    /\ Len(cycles) = 2
    /\ cycles[1].op = "call" /\ cycles[1].ok
    /\ cycles[2].op = "ret" /\ cycles[2].ok

C2_CallReturnRestores ==
    CallThenReturn =>
        /\ position_in_memory = cycles[1].at + 2
        /\ stack_pointer = cycles[1].sp

C2_Witness ==
    /\ CallThenReturn
    /\ cycles[1].at = 512
    /\ cycles[1].sp = 1
    /\ position_in_memory = 514
    /\ stack_pointer = 1

(***************************************************************************)
(* C3: ADD 0x8xy4 with x # 0xF and reg[x] = a, reg[y] = b leaves           *)
(* reg[x] = (a + b) mod 256 and register 0xF = 1 if a + b > 255, else 0.   *)
(***************************************************************************)
IsAddWord(w) == w \div 4096 = 8 /\ w % 16 = 4
FieldX(w) == (w \div 256) % 16
FieldY(w) == (w \div 16) % 16

C3_AddWrapsAndFlags ==
    [][(AboutToDispatch /\ IsAddWord(opcode) /\ FieldX(opcode) # 15) =>
        LET a == registers[FieldX(opcode)]
            b == registers[FieldY(opcode)]
        IN  /\ registers'[FieldX(opcode)] = (a + b) % 256
            /\ registers'[15] = (IF a + b > 255 THEN 1 ELSE 0)]_vars

C3_Witness ==
    /\ cycles # <<>>
    /\ LastCycle.op = "add_xy"
    /\ opcode = ADD(0, 1)
    /\ registers[0] = 0
    /\ registers[1] = 1
    /\ registers[15] = 1

(***************************************************************************)
(* C4: RETURN with stack_pointer = 0 ends the run with the stack-underflow *)
(* fault as an outcome that run reports, not as a panic and not as a       *)
(* no-op, and stack_pointer stays 0.                                       *)
(***************************************************************************)
C4_UnderflowIsReportedFault ==
    [][(AboutToDispatch /\ opcode = RETURN /\ stack_pointer = 0) =>
        /\ status' \notin {"Running", "Panicked"}
        /\ stack_pointer' = 0]_vars

(***************************************************************************)
(* C5: CALL with stack_pointer = 16 ends the run in the stack-overflow     *)
(* fault raised by the capacity check of call; CALLs with stack_pointer in *)
(* 0..15 succeed.                                                          *)
(***************************************************************************)
C5_OverflowAtCapacity ==
    [][(AboutToDispatch /\ opcode \div 4096 = 2) =>
        IF stack_pointer = 16
        THEN status' = "Panicked" /\ panic' = "Stack overflow"
        ELSE status' = "Running" /\ stack_pointer' = stack_pointer + 1]_vars

(***************************************************************************)
(* C6: every fetched word other than 0x0000, 0x00EE, 0x2nnn and 0x8xy4     *)
(* ends the run in the unimplemented-opcode fault; the loop does not skip  *)
(* it and go on.                                                           *)
(***************************************************************************)
Implemented(w) ==
    \/ w = 0
    \/ w = 238
    \/ w \div 4096 = 2
    \/ IsAddWord(w)

C6_UnmatchedWordFaults ==
    [][(AboutToDispatch /\ ~Implemented(opcode)) =>
        (status' = "Panicked" /\ panic' = "not yet implemented")]_vars

C6_Witness ==
    /\ Faulted("UnimplementedOpcode")
    /\ opcode = 224
    /\ LastCycle.op = "todo"
    /\ position_in_memory = 2


(***************************************************************************)
(* C7: a fetch that yields a word is made with program_counter in 0..4094; *)
(* a cycle that starts with program_counter >= 4095 ends the run in the    *)
(* out-of-bounds-fetch fault and reads nothing outside memory.             *)
(***************************************************************************)
C7_FetchWithinMemory ==
    [][AboutToFetch =>
        IF position_in_memory \in 0..4094
        THEN status' = "Running" /\ phase' = "dispatch"
        ELSE /\ status' = "Panicked"
             /\ panic' = "index out of bounds: memory"
             /\ phase' = "fetch"
             /\ opcode' = opcode]_vars

\* RETURN to the saved address 4096 of a CALL placed at 4094
C7_Witness ==
    /\ Faulted("OutOfBoundsFetch")
    /\ position_in_memory = 4096
    /\ LastCycle.op = "ret"
    /\ Len(cycles) = 2
    /\ cycles[1].at = 4094

(***************************************************************************)
(* C8: when the fetched word is 0x0000 the machine becomes Halted and      *)
(* registers, memory, call stack, stack_pointer and program_counter all    *)
(* keep the values they had before the HALT cycle.                         *)
(***************************************************************************)
C8_HaltChangesNothing ==
    [][(AboutToDispatch /\ opcode = 0) =>
        /\ status' = "Halted"
        /\ registers' = registers
        /\ memory' = memory
        /\ stack' = stack
        /\ stack_pointer' = stack_pointer
        /\ position_in_memory' = position_in_memory]_vars

\* C8 as amended: all of them keep their values except program_counter,
\* which the loop has advanced by 2 before the HALT arm is taken.
C8_HaltAdvancesOnlyPosition ==
    [][(AboutToDispatch /\ opcode = 0) =>
        /\ status' = "Halted"
        /\ registers' = registers
        /\ memory' = memory
        /\ stack' = stack
        /\ stack_pointer' = stack_pointer
        /\ position_in_memory' = position_in_memory + 2]_vars

C8_Witness ==
    /\ status = "Halted"
    /\ LastCycle.op = "break"
    /\ LastCycle.at = 2
    /\ position_in_memory = 4
    /\ stack_pointer = 1
    /\ registers[0] = 200

(***************************************************************************)
(* C9: Halted and Faulted are absorbing: after a run has reached a         *)
(* terminal state nothing more is executed on that machine, also when run  *)
(* is invoked on it again.                                                 *)
(***************************************************************************)
C9_TerminalIsAbsorbing ==
    [][(Terminal \/ runs > 1) =>
        /\ registers' = registers
        /\ memory' = memory
        /\ stack' = stack
        /\ stack_pointer' = stack_pointer
        /\ position_in_memory' = position_in_memory
        /\ cycles' = cycles]_vars

(***************************************************************************)
(* C10: every run started at program_counter 0 with an empty call stack    *)
(* eventually reaches a terminal state, whatever the memory image and the  *)
(* registers.                                                              *)
(***************************************************************************)
C10_RunTerminates == <>Terminal

\* a run that ends only after sixteen nested calls have filled the call stack
C10_Witness ==
    /\ Terminal
    /\ Len(cycles) = 2
    /\ cycles[1].op = "call" /\ cycles[1].ok /\ cycles[1].sp = 15
    /\ cycles[2].op = "call" /\ ~cycles[2].ok /\ cycles[2].sp = 16


(***************************************************************************)
(* C11: in every reachable state 0 <= stack_pointer <= 16, and every       *)
(* indexing of the call stack array (the write of CALL, the read of        *)
(* RETURN) is made with an index in 0..15.                                 *)
(***************************************************************************)
C11_StackIndexInRange ==
    /\ stack_pointer \in 0..16
    /\ \A k \in 1..Len(cycles) : cycles[k].indexed \subseteq 0..15

(***************************************************************************)
(* C12: ADD is commutative in the values of its operands: ADD x,y run      *)
(* from reg[x] = a, reg[y] = b and run from reg[x] = b, reg[y] = a leave   *)
(* the same reg[x] and the same register 0xF.                              *)
(***************************************************************************)
Swapped(regs, x, y) == [regs EXCEPT ![x] = regs[y], ![y] = regs[x]]

C12_AddCommutes ==
    [][(AboutToDispatch /\ IsAddWord(opcode)) =>
        LET x == FieldX(opcode)
            y == FieldY(opcode)
            other == AddXYRegisters(Swapped(registers, x, y), x, y)
        IN  /\ registers'[x] = other[x]
            /\ registers'[15] = other[15]]_vars

C12_Witness ==
    /\ cycles # <<>>
    /\ LastCycle.op = "add_xy"
    /\ opcode = ADD(1, 0)
    /\ registers[0] = 255
    /\ registers[1] = 9
    /\ registers[15] = 1

(***************************************************************************)
(* C13: for every program_counter p in 0..4094 the fetch yields            *)
(* memory[p] * 256 + memory[p + 1] and changes nothing of the machine.     *)
(***************************************************************************)
C13_FetchIsBigEndianAndPure ==
    [][(AboutToFetch /\ position_in_memory \in 0..4094) =>
        /\ opcode' = memory[position_in_memory] * 256 + memory[position_in_memory + 1]
        /\ registers' = registers
        /\ memory' = memory
        /\ stack' = stack
        /\ stack_pointer' = stack_pointer
        /\ position_in_memory' = position_in_memory]_vars

\* the word 0x8014 fetched at the odd position 0x101
C13_Witness ==
    /\ AboutToDispatch
    /\ position_in_memory = 257
    /\ memory[257] = 128
    /\ memory[258] = 20
    /\ opcode = 32788

(***************************************************************************)
(* C14: decode is total: op = w div 4096, x = (w div 256) mod 16,          *)
(* y = (w div 16) mod 16, n = w mod 16, addr = w mod 4096; x and y are in  *)
(* 0..15 and no handler indexes the registers out of range.                *)
(***************************************************************************)
C14_DecodeFields ==
    /\ panic # "index out of bounds: registers"
    /\ phase = "dispatch" =>
        /\ DecodeC(opcode) = opcode \div 4096
        /\ DecodeX(opcode) = (opcode \div 256) % 16
        /\ DecodeY(opcode) = (opcode \div 16) % 16
        /\ DecodeD(opcode) = opcode % 16
        /\ DecodeNNN(opcode) = opcode % 4096
        /\ DecodeX(opcode) \in 0..15
        /\ DecodeY(opcode) \in 0..15

\* ADD regF += regF has been decoded and executed
C14_Witness ==
    /\ cycles # <<>>
    /\ LastCycle.op = "add_xy"
    /\ LastCycle.ok
    /\ opcode = 36852
    /\ registers[15] = 0

(***************************************************************************)
(* C15: a newly created machine has every register, memory byte and call   *)
(* stack slot 0, program_counter 0, stack_pointer 0 and is Running; run on *)
(* it with no program loaded halts on its first cycle, registers still 0.  *)
(***************************************************************************)
AllZero(f, n) == DOMAIN f = 0..(n - 1) /\ \A i \in 0..(n - 1) : f[i] = 0

FreshMachine ==
    /\ status = "Running"
    /\ cycles = <<>>
    /\ position_in_memory = 0
    /\ stack_pointer = 0
    /\ AllZero(registers, 16)
    /\ AllZero(memory, 4096)

C15_NewMachineIsZeroAndHalts ==
    /\ [](phase = "new" =>
            /\ AllZero(registers, 16)
            /\ AllZero(memory, 4096)
            /\ AllZero(stack, 16)
            /\ position_in_memory = 0
            /\ stack_pointer = 0
            /\ status = "Running")
    /\ [][/\ (FreshMachine /\ phase = "fetch") =>
               (status' = "Running" /\ phase' = "dispatch")
          /\ (FreshMachine /\ phase = "dispatch") =>
               /\ status' = "Halted"
               /\ Len(cycles') = 1
               /\ cycles'[1].op = "break"
               /\ AllZero(registers', 16)]_vars

C15_Witness ==
    /\ status = "Halted"
    /\ Len(cycles) = 1
    /\ position_in_memory = 2
    /\ AllZero(registers, 16)
    /\ AllZero(memory, 4096)

(***************************************************************************)
(* C16: the fetch leaves program_counter alone and the advance by 2 comes  *)
(* before the opcode's effect: a CALL at address a with stack_pointer      *)
(* s < 16 stores a + 2 in slot s, sets stack_pointer to s + 1 and          *)
(* program_counter to the immediate nnn.                                   *)
(***************************************************************************)
C16_CallSavesAdvancedPosition ==
    [][/\ AboutToFetch => position_in_memory' = position_in_memory
       /\ (AboutToDispatch /\ opcode \div 4096 = 2 /\ stack_pointer < 16) =>
            /\ stack' = [stack EXCEPT ![stack_pointer] = position_in_memory + 2]
            /\ stack_pointer' = stack_pointer + 1
            /\ position_in_memory' = opcode % 4096]_vars

C16_Witness ==
    /\ cycles # <<>>
    /\ LastCycle.op = "call"
    /\ LastCycle.ok
    /\ LastCycle.at = 512
    /\ LastCycle.sp = 1
    /\ stack[1] = 514
    /\ stack_pointer = 2
    /\ position_in_memory = 256

(***************************************************************************)
(* C17: each fetched word selects exactly one outcome, the most specific   *)
(* pattern first: 0x0000 is HALT, 0x00EE is RETURN, any other word with    *)
(* op = 0 is the unimplemented-opcode fault; op = 2 is CALL whatever the   *)
(* low 12 bits; op = 8 is ADD when n = 4 and the fault otherwise.          *)
(***************************************************************************)
ExpectedArm(w) ==
    IF w = 0 THEN "break"
    ELSE IF w = 238 THEN "ret"
    ELSE IF w \div 4096 = 0 THEN "todo"
    ELSE IF w \div 4096 = 2 THEN "call"
    ELSE IF w % 16 = 4 THEN "add_xy"
    ELSE "todo"

C17_MostSpecificPattern ==
    [][(AboutToDispatch /\ opcode \div 4096 \in {0, 2, 8}) =>
        /\ cycles'[Len(cycles')].op = ExpectedArm(opcode)
        /\ status' = "Halted" <=> ExpectedArm(opcode) = "break"
        /\ panic' = "not yet implemented" <=> ExpectedArm(opcode) = "todo"
        /\ panic' = "Stack underflow" <=> ExpectedArm(opcode) = "ret"
        /\ (ExpectedArm(opcode) = "call" /\ stack_pointer < 16) =>
             (status' = "Running" /\ position_in_memory' = opcode % 4096)
        /\ ExpectedArm(opcode) = "add_xy" =>
             (status' = "Running" /\ position_in_memory' = position_in_memory + 2)]_vars

\* the word 0x20EE has been taken as CALL 0x0EE
C17_Witness ==
    /\ cycles # <<>>
    /\ LastCycle.op = "call"
    /\ opcode = 8430
    /\ position_in_memory = 238
    /\ stack_pointer = 1

(***************************************************************************)
(* C18: register 0xF is operand and flag of ADD: with x = 0xF it ends as   *)
(* the carry of reg[0xF] + reg[y], not the sum; with y = 0xF and x # 0xF   *)
(* the sum uses the value register 0xF had before, and register 0xF is     *)
(* then overwritten with the carry.                                        *)
(***************************************************************************)
Carry(a, b) == IF a + b > 255 THEN 1 ELSE 0

C18_FlagRegisterAsOperand ==
    [][(AboutToDispatch /\ IsAddWord(opcode)) =>
        LET x == FieldX(opcode)
            y == FieldY(opcode)
        IN  /\ x = 15 => registers'[15] = Carry(registers[15], registers[y])
            /\ (y = 15 /\ x # 15) =>
                 /\ registers'[x] = (registers[x] + registers[15]) % 256
                 /\ registers'[15] = Carry(registers[x], registers[15])]_vars

\* ADD regF += reg0 from regF = 7, reg0 = 255: the sum 6 is lost to the flag
C18_Witness ==
    /\ cycles # <<>>
    /\ LastCycle.op = "add_xy"
    /\ opcode = ADD(15, 0)
    /\ registers[0] = 255
    /\ registers[15] = 1

(***************************************************************************)
(* C19: the call stack is LIFO: a RETURN that does not fault sets          *)
(* program_counter to (address + 2) of the most recent CALL not yet        *)
(* returned from, and no step alters a slot that is below stack_pointer    *)
(* before and after it.                                                    *)
(***************************************************************************)
C19_CallStackIsLifo ==
    [][/\ (AboutToDispatch /\ opcode = 238 /\ stack_pointer > 0) =>
            /\ pending # <<>>
            /\ position_in_memory' = pending[Len(pending)] + 2
            /\ stack_pointer' = stack_pointer - 1
       /\ \A i \in 0..15 :
            (i < stack_pointer /\ i < stack_pointer') => stack'[i] = stack[i]]_vars

\* CALL at 0 then CALL at 2, returned from in the order 4 then 2
C19_Witness ==
    /\ Len(cycles) = 2
    /\ cycles[1].op = "ret" /\ cycles[1].ok /\ cycles[1].sp = 2
    /\ cycles[2].op = "ret" /\ cycles[2].ok /\ cycles[2].sp = 1
    /\ cycles[1].at = 4
    /\ position_in_memory = 2
    /\ stack_pointer = 0
    /\ stack[0] = 2
    /\ stack[1] = 4

(***************************************************************************)
(* C20: an instruction that faults applies none of its effect: registers,  *)
(* memory, call stack and stack_pointer are as before the faulting cycle,  *)
(* program_counter is the instruction's address + 2 (a faulting CALL does  *)
(* not set it to nnn), and nothing is executed after the fault.            *)
(***************************************************************************)
C20_FaultAppliesNoEffect ==
    [][/\ (AboutToDispatch /\ status' = "Panicked") =>
            /\ registers' = registers
            /\ memory' = memory
            /\ stack' = stack
            /\ stack_pointer' = stack_pointer
            /\ position_in_memory' = position_in_memory + 2
       /\ status # "Panicked"]_vars

\* the CALL that finds the call stack full
C20_Witness ==
    /\ status = "Panicked"
    /\ LastCycle.op = "call"
    /\ ~LastCycle.ok
    /\ LastCycle.sp = 16
    /\ stack_pointer = 16
    /\ position_in_memory = LastCycle.at + 2
    /\ opcode = CALL(4)


(***************************************************************************)
(* C21: a run never writes memory; ADD x,y changes only register x,        *)
(* register 0xF and program_counter; CALL and RETURN change only the call  *)
(* stack, stack_pointer and program_counter and leave the 16 registers as  *)
(* they were.                                                              *)
(***************************************************************************)
C21_FrameOfTheHandlers ==
    [][/\ memory' = memory
       /\ (AboutToDispatch /\ IsAddWord(opcode)) =>
            /\ \A i \in 0..15 :
                 (i # FieldX(opcode) /\ i # 15) => registers'[i] = registers[i]
            /\ stack' = stack
            /\ stack_pointer' = stack_pointer
       /\ (AboutToDispatch /\ (opcode \div 4096 = 2 \/ opcode = 238)) =>
            registers' = registers]_vars

\* inside the subroutine of the example, after its first ADD reg0 += reg1
C21_Witness ==
    /\ memory = ExampleMemory
    /\ cycles # <<>>
    /\ LastCycle.op = "add_xy"
    /\ registers[0] = 144
    /\ registers[1] = 200
    /\ registers[2] = 200
    /\ registers[15] = 1
    /\ stack_pointer = 1
    /\ stack[0] = 2

(***************************************************************************)
(* C22: stack_pointer is the number of CALLs executed without fault minus  *)
(* the number of RETURNs executed without fault (the length of pending,    *)
(* which gains an address at each such CALL and loses one at each such     *)
(* RETURN), and every slot below stack_pointer holds the address of its    *)
(* CALL plus 2, a value in 2..4096 that the 16-bit slot did not truncate.  *)
(***************************************************************************)
C22_StackMirrorsOutstandingCalls ==
    /\ stack_pointer = Len(pending)
    /\ \A i \in 1..Len(pending) :
        /\ i <= 16
        /\ stack[i - 1] = pending[i] + 2
        /\ stack[i - 1] \in 2..4096

\* three CALLs and one RETURN executed, the last CALL placed at 0x200
C22_Witness ==
    /\ cycles # <<>>
    /\ LastCycle.op = "call"
    /\ pending = <<2, 512>>
    /\ stack_pointer = 2
    /\ stack[0] = 4
    /\ stack[1] = 514

====
